---- MODULE Spec2Model ----
(***************************************************************************)
(* A model of the point-region quadtree of src/src/quadtree.c: the mutable *)
(* builder (qt_create_quadtree, qt_insert), the layout pass (qt_finalise), *)
(* the query iterator (qt_query_itr, qt_itr_next), the array wrappers      *)
(* (qt_query_ary, qt_query_ary_fast) and the file codec (qt_load).         *)
(*                                                                         *)
(* Coordinates are doubles in the source.  The model uses integers on a    *)
(* lattice of step 4 inside the region (0,0)-(16,16): a leaf is split only *)
(* when it holds two different points, so no region narrower than 2 is     *)
(* ever halved and every midpoint the code computes is an integer; the     *)
(* same arithmetic is exact in IEEE doubles, so CALCDIVS is modelled       *)
(* without rounding.                                                       *)
(*                                                                         *)
(* Memory is modelled in 8-byte words.  Addresses and sizes are in bytes.  *)
(***************************************************************************)
EXTENDS Integers, Sequences, FiniteSets, TLC

(***************************************************************************)
(* Bounds of the model.                                                    *)
(***************************************************************************)
\* Number of qt_insert calls made on the builder.
MaxItems == 3
\* Largest max_n handed to the array wrappers (0 means unlimited).
MaxN == 2
\* getpagesize() in 8-byte words, as used by _read_mem.
PageWords == 5

\* The bucket sizes (maxfill) the builder is created with.
BucketSizes == {1, 2}
\* The bounding region of the tree.
TreeRegion == [ne |-> <<16, 16>>, sw |-> <<0, 0>>]
\* The coordinates inserted items are drawn from (all inside TreeRegion).
Points == {<<4, 4>>, <<8, 8>>, <<16, 16>>, <<4, 12>>, <<12, 12>>}

(***************************************************************************)
(* Program constants.                                                      *)
(***************************************************************************)
NW == 0
NE == 1
SW == 2
SE == 3
QUAD == 4
NULL == 0
ROOT == 0

\* sizeof(Inner), sizeof(Leaf), sizeof(Item): packed structs.
SizeofInner == 32
SizeofLeaf == 8
SizeofItem == 24
\* sizeof(QuadTree): region (4 doubles), size, maxdepth (+padding), ninners,
\* nleafs.
SizeofQuadTree == 64
\* Bytes per modelled memory word.
WordBytes == 8

(***************************************************************************)
(* Geometry primitives.                                                    *)
(***************************************************************************)
in_quadrant(i, q) ==
    /\ i.coords[1] >= q.sw[1]
    /\ i.coords[1] <= q.ne[1]
    /\ i.coords[2] >= q.sw[2]
    /\ i.coords[2] <= q.ne[2]

\* <<div_x, div_y>>
CALCDIVS(region) ==
    << region.sw[1] + (region.ne[1] - region.sw[1]) \div 2,
       region.sw[2] + (region.ne[2] - region.sw[2]) \div 2 >>

OVERLAP(qA, qB) ==
    /\ qA.sw[1] <= qB.ne[1]
    /\ qA.sw[2] <= qB.ne[2]
    /\ qA.ne[1] >= qB.sw[1]
    /\ qA.ne[2] >= qB.sw[2]

\* Variant of CONTAINED that tests the sw corner of inner only.
CONTAINED_SwCornerOnly(inner, outer) ==
    /\ inner.sw[1] >= outer.sw[1]
    /\ inner.sw[2] >= outer.sw[2]
    /\ inner.sw[1] <= outer.ne[1]
    /\ inner.sw[2] <= outer.ne[2]

CONTAINED(inner, outer) ==
    /\ inner.sw[1] >= outer.sw[1]
    /\ inner.sw[2] >= outer.sw[2]
    /\ inner.ne[1] <= outer.ne[1]
    /\ inner.ne[2] <= outer.ne[2]

\* The four sub-quadrants of region, indexed NW+1 .. SE+1.
_gen_quadrants(region) ==
    LET d == CALCDIVS(region)
    IN  << [ne |-> <<d[1], region.ne[2]>>, sw |-> <<region.sw[1], d[2]>>],
           [ne |-> <<region.ne[1], region.ne[2]>>, sw |-> <<d[1], d[2]>>],
           [ne |-> <<d[1], d[2]>>, sw |-> <<region.sw[1], region.sw[2]>>],
           [ne |-> <<region.ne[1], d[2]>>, sw |-> <<d[1], region.sw[2]>>] >>

(***************************************************************************)
(* The builder.  The machine state m threaded through the recursion is     *)
(* [qt |-> the UFQuadTree struct, heap |-> the malloc()ed objects], the    *)
(* heap a sequence indexed by address: TransNodes, bucket arrays and item  *)
(* copies, each with the number of times it has been free()d (and the     *)
(* UFQuadTree struct itself, which stays the caller's to free).            *)
(***************************************************************************)
\* _malloc_fast: the new object gets the next address.
_malloc_fast(m, obj) == [m EXCEPT !.heap = Append(@, obj)]

LastPtr(m) == Len(m.heap)

free(m, ptr) == [m EXCEPT !.heap[ptr].frees = @ + 1]

_nullify_quadrants == <<NULL, NULL, NULL, NULL>>

InnerNode ==
    [kind |-> "node", is_inner |-> TRUE, quadrants |-> _nullify_quadrants,
     items |-> NULL, n |-> 0, size |-> 0, frees |-> 0]

\* The UFQuadTree struct is malloc()ed first, then the root node.
qt_create_quadtree(region, maxfill) ==
    [qt |-> [region |-> region, size |-> 0, maxdepth |-> 0,
             maxfill |-> maxfill, ninners |-> 1, nleafs |-> 0, root |-> 2],
     heap |-> << [kind |-> "UFQuadTree", frees |-> 0], InnerNode >>]

\* The items of a leaf's bucket, in slot order.
LeafItems(m, node) == m.heap[m.heap[node].items].slots

_itemcmp(a, b) ==
    LET wrtx == IF a.coords[1] > b.coords[1] THEN 1
                ELSE IF a.coords[1] < b.coords[1] THEN -1 ELSE 0
        wrty == IF a.coords[2] > b.coords[2] THEN 1
                ELSE IF a.coords[2] < b.coords[2] THEN -1 ELSE 0
    IN  wrtx + wrty * (IF wrtx = 0 THEN 1 ELSE 0)

_distinct_items_exist(m, node) ==
    LET its == LeafItems(m, node)
    IN  \E i \in 2..m.heap[node].n :
            _itemcmp(m.heap[its[i - 1]], m.heap[its[i]]) # 0

\* Allocates the bucket array, then fills in the (already allocated) node.
_init_leaf_node(m, node) ==
    LET m1 == _malloc_fast(m, [kind |-> "bucket", slots |-> <<>>, frees |-> 0])
    IN  [m1 EXCEPT !.heap[node] =
                       [kind |-> "node", is_inner |-> FALSE,
                        quadrants |-> _nullify_quadrants,
                        items |-> LastPtr(m1), n |-> 0,
                        size |-> m.qt.maxfill, frees |-> 0],
                   !.qt.nleafs = @ + 1]

\* Variant of the choice of the child quadrant with > for >=: an item on a
\* boundary goes south/west.
ChildQuad_BoundarySouthWest(item, q) ==
    LET d == CALCDIVS(q)
        east == item.coords[1] > d[1]
        north == item.coords[2] > d[2]
    IN  [quad |-> (IF east THEN NE ELSE 0) + (IF north THEN 0 ELSE SW),
         q |-> [ne |-> << IF east THEN q.ne[1] ELSE d[1],
                          IF north THEN q.ne[2] ELSE d[2] >>,
                sw |-> << IF east THEN d[1] ELSE q.sw[1],
                          IF north THEN d[2] ELSE q.sw[2] >>]]

\* The child index and child quadrant _qt_insert picks at an inner node.
ChildQuad(item, q) ==
    LET d == CALCDIVS(q)
        east == item.coords[1] >= d[1]
        north == item.coords[2] >= d[2]
    IN  [quad |-> (IF east THEN NE ELSE 0) + (IF north THEN 0 ELSE SW),
         q |-> [ne |-> << IF east THEN q.ne[1] ELSE d[1],
                          IF north THEN q.ne[2] ELSE d[2] >>,
                sw |-> << IF east THEN d[1] ELSE q.sw[1],
                          IF north THEN d[2] ELSE q.sw[2] >>]]

RECURSIVE _qt_insert(_, _, _, _, _)
RECURSIVE InsertRestart(_, _, _, _, _)
RECURSIVE _split_node(_, _, _, _)
RECURSIVE SplitReinsert(_, _, _, _, _, _)

\* if (node->leaf.n+1 > node->leaf.size) _split_node(...)
_ensure_bucket_size(m, node, quadrant, depth) ==
    IF m.heap[node].n + 1 > m.heap[node].size
    THEN _split_node(m, node, quadrant, depth)
    ELSE m

\* Variant of the loop of _split_node that starts at cpy.leaf.items[1]: the
\* leaf's first item is not put back.
SplitReinsert_DropFirst(m, node, cpyitems, i, quadrant, depth) ==
    IF i > Len(cpyitems)
    THEN m
    ELSE IF i = 1
    THEN SplitReinsert(m, node, cpyitems, 2, quadrant, depth)
    ELSE SplitReinsert(_qt_insert(m, node, cpyitems[i], quadrant, depth - 1),
                       node, cpyitems, i + 1, quadrant, depth)

\* Variant of the loop of _split_node that runs from the last item of the
\* old bucket down to the first.
SplitReinsert_Backwards(m, node, cpyitems, i, quadrant, depth) ==
    IF i > Len(cpyitems)
    THEN m
    ELSE SplitReinsert(_qt_insert(m, node, cpyitems[Len(cpyitems) + 1 - i],
                                  quadrant, depth - 1),
                       node, cpyitems, i + 1, quadrant, depth)

\* The loop of _split_node over cpy.leaf.items[i .. cpy.leaf.n-1].
SplitReinsert(m, node, cpyitems, i, quadrant, depth) ==
    IF i > Len(cpyitems)
    THEN m
    ELSE SplitReinsert(_qt_insert(m, node, cpyitems[i], quadrant, depth - 1),
                       node, cpyitems, i + 1, quadrant, depth)

RECURSIVE MakeChildren(_, _, _)
\* Gives node a new, empty leaf in each of its quadrants i .. SE.
MakeChildren(m, node, i) ==
    IF i >= QUAD
    THEN m
    ELSE LET ma == _malloc_fast(m, [kind |-> "node"])
             mb == [ma EXCEPT !.heap[node].quadrants[i + 1] = LastPtr(ma)]
         IN  MakeChildren(_init_leaf_node(mb, LastPtr(ma)), node, i + 1)

\* Variant of _split_node that gives the new inner node all four leaves at
\* once, before it re-inserts the items.
_split_node_FourLeafs(m, node, quadrant, depth) ==
    IF ~_distinct_items_exist(m, node)
    THEN [m EXCEPT !.heap[node].size = @ * 2]
    ELSE LET cpy == m.heap[node]
             cpyitems == LeafItems(m, node)
             m1 == [m EXCEPT !.heap[node] = InnerNode,
                             !.qt.ninners = @ + 1,
                             !.qt.nleafs = @ - 1]
             m2 == SplitReinsert(MakeChildren(m1, node, 0), node, cpyitems,
                                 1, quadrant, depth)
         IN  free(m2, cpy.items)

\* Variant of _split_node without the qt->nleafs-- for the leaf that
\* becomes an inner node.
_split_node_LeafStillCounted(m, node, quadrant, depth) ==
    IF ~_distinct_items_exist(m, node)
    THEN [m EXCEPT !.heap[node].size = @ * 2]
    ELSE LET cpy == m.heap[node]
             cpyitems == LeafItems(m, node)
             m1 == [m EXCEPT !.heap[node] = InnerNode,
                             !.qt.ninners = @ + 1]
             m2 == SplitReinsert(m1, node, cpyitems, 1, quadrant, depth)
         IN  free(m2, cpy.items)

\* Variant of _split_node without the free(cpy.leaf.items) at its end.
_split_node_KeepOldBucket(m, node, quadrant, depth) ==
    IF ~_distinct_items_exist(m, node)
    THEN [m EXCEPT !.heap[node].size = @ * 2]
    ELSE LET cpyitems == LeafItems(m, node)
             m1 == [m EXCEPT !.heap[node] = InnerNode,
                             !.qt.ninners = @ + 1,
                             !.qt.nleafs = @ - 1]
         IN  SplitReinsert(m1, node, cpyitems, 1, quadrant, depth)

_split_node(m, node, quadrant, depth) ==
    IF ~_distinct_items_exist(m, node)
    THEN \* realloc: the bucket keeps its address and its items
         [m EXCEPT !.heap[node].size = @ * 2]
    ELSE LET cpy == m.heap[node]
             cpyitems == LeafItems(m, node)
             m1 == [m EXCEPT !.heap[node] = InnerNode,
                             !.qt.ninners = @ + 1,
                             !.qt.nleafs = @ - 1]
             m2 == SplitReinsert(m1, node, cpyitems, 1, quadrant, depth)
         IN  free(m2, cpy.items)

\* The body of _qt_insert from the RESTART label on.
InsertRestart(m, node, item, q, depth) ==
    IF m.heap[node].is_inner
    THEN LET c == ChildQuad(m.heap[item], q)
             m1 == IF m.heap[node].quadrants[c.quad + 1] = NULL
                   THEN LET ma == _malloc_fast(m, [kind |-> "node"])
                            mb == [ma EXCEPT !.heap[node].quadrants[c.quad + 1]
                                                 = LastPtr(ma)]
                        IN  _init_leaf_node(mb, LastPtr(ma))
                   ELSE m
         IN  _qt_insert(m1, m1.heap[node].quadrants[c.quad + 1], item, c.q,
                        depth)
    ELSE LET m1 == _ensure_bucket_size(m, node, q, depth)
         IN  IF m1.heap[node].is_inner
             THEN InsertRestart(m1, node, item, q, depth)
             ELSE [m1 EXCEPT !.heap[m1.heap[node].items].slots =
                                 Append(@, item),
                             !.heap[node].n = @ + 1]

\* Variant of _qt_insert that counts the root as depth 0: depth is compared
\* with maxdepth before it is incremented.
_qt_insert_RootAtDepthZero(m, node, item, q, depth0) ==
    LET m1 == IF depth0 > m.qt.maxdepth THEN [m EXCEPT !.qt.maxdepth = depth0]
              ELSE m
    IN  InsertRestart(m1, node, item, q, depth0 + 1)

_qt_insert(m, node, item, q, depth0) ==
    LET depth == depth0 + 1
        m1 == IF depth > m.qt.maxdepth THEN [m EXCEPT !.qt.maxdepth = depth]
              ELSE m
    IN  InsertRestart(m1, node, item, q, depth)

\* qt_insert: the item copy is malloc()ed, then inserted from the root.
qt_insert_op(m, item) ==
    LET m1 == [m EXCEPT !.qt.size = @ + 1]
        m2 == _malloc_fast(m1, [kind |-> "item", value |-> item.value,
                                coords |-> item.coords, frees |-> 0])
    IN  _qt_insert(m2, m2.qt.root, LastPtr(m2), m2.qt.region, 0)

(***************************************************************************)
(* The finalised layout.  A tree buffer is [base |-> its address, bytes |-> *)
(* its malloc()ed size, words |-> its contents, oob |-> the addresses       *)
(* written outside it].  A word never written holds Uninit.                *)
(***************************************************************************)
Uninit == 0 - 1

\* Where _malloc puts the finalised buffer and where qt_load puts its own.
Bases == [mem |-> 4096, loaded |-> 8192]

NoTree == [base |-> 0, bytes |-> 0, words |-> <<>>, oob |-> {}]

_malloc(base, bytes) ==
    [base |-> base, bytes |-> bytes,
     words |-> [i \in 1..(bytes \div WordBytes) |-> Uninit], oob |-> {}]

WordIndex(t, addr) == (addr - t.base) \div WordBytes + 1

InBuffer(t, addr) == addr >= t.base /\ addr + WordBytes <= t.base + t.bytes

Rd(t, addr) == t.words[WordIndex(t, addr)]

Wr(t, addr, val) ==
    IF InBuffer(t, addr)
    THEN [t EXCEPT !.words[WordIndex(t, addr)] = val]
    ELSE [t EXCEPT !.oob = @ \cup {addr}]

\* The fields of the QuadTree header, read from the buffer.
HdrRegion(t) ==
    [ne |-> <<Rd(t, t.base), Rd(t, t.base + 8)>>,
     sw |-> <<Rd(t, t.base + 16), Rd(t, t.base + 24)>>]
HdrSize(t) == Rd(t, t.base + 32)
HdrMaxdepth(t) == Rd(t, t.base + 40)
HdrNinners(t) == Rd(t, t.base + 48)
HdrNleafs(t) == Rd(t, t.base + 56)

MEM_INNERS(t) == t.base + SizeofQuadTree
MEM_LEAFS(t) == MEM_INNERS(t) + HdrNinners(t) * SizeofInner
MEM_ROOT(t) == MEM_INNERS(t)
IS_LEAF(t, node) == node >= MEM_LEAFS(t)

\* The Leaf at address leaf: its n and the address of items[i], i from 0.
LeafN(t, leaf) == Rd(t, leaf)
ItemAddr(leaf, i) == leaf + SizeofLeaf + i * SizeofItem
ItemAt(t, addr) ==
    [value |-> Rd(t, addr), coords |-> <<Rd(t, addr + 8), Rd(t, addr + 16)>>]

_mem_size(q) ==
    SizeofQuadTree + SizeofInner * q.ninners + SizeofLeaf * q.nleafs
        + SizeofItem * q.size

_init_quadtree(t, from) ==
    LET hdr == << from.region.ne[1], from.region.ne[2], from.region.sw[1],
                  from.region.sw[2], from.size, from.maxdepth, from.ninners,
                  from.nleafs >>
    IN  [t EXCEPT !.words = [i \in DOMAIN t.words |->
                                IF i <= Len(hdr) THEN hdr[i] ELSE t.words[i]]]

(***************************************************************************)
(* The layout pass.  f is [m |-> the builder machine, t |-> the buffer,    *)
(* st |-> the FinaliseState].                                              *)
(***************************************************************************)
RECURSIVE _qt_finalise(_)
RECURSIVE FinaliseInnerLoop(_, _, _, _)
RECURSIVE FinaliseLeafLoop(_, _, _, _)

\* The for loop of _qt_finalise_leaf over the items i .. n-1 (i from 0).
FinaliseLeafLoop(f, cur, leaf, i) ==
    IF i >= LeafN(f.t, leaf)
    THEN f
    ELSE LET ip == LeafItems(f.m, cur)[i + 1]
             it == f.m.heap[ip]
             a == ItemAddr(leaf, i)
             t1 == Wr(Wr(Wr(f.t, a, it.value), a + 8, it.coords[1]),
                      a + 16, it.coords[2])
         IN  FinaliseLeafLoop([f EXCEPT !.t = t1, !.m = free(f.m, ip)],
                              cur, leaf, i + 1)

_qt_finalise_leaf(f) ==
    LET cur == f.st.cur_trans
        leaf == f.st.cur_node
        n == f.m.heap[cur].n
        f1 == [f EXCEPT !.st.next_leaf = @ + SizeofLeaf + n * SizeofItem,
                        !.t = Wr(f.t, leaf, n)]
        f2 == FinaliseLeafLoop(f1, cur, leaf, 0)
    IN  [f2 EXCEPT !.m = free(free(f2.m, f2.m.heap[cur].items), cur)]

\* Variant of the for loop of _qt_finalise_inner that stores a child's
\* offset from the start of the buffer, not from MEM_INNERS.
FinaliseInnerLoop_OffsetFromBuffer(f, cur, inner, i) ==
    IF i >= QUAD
    THEN f
    ELSE LET child == f.m.heap[cur].quadrants[i + 1]
             slot == inner + i * WordBytes
         IN  IF child = NULL
             THEN FinaliseInnerLoop(
                      [f EXCEPT !.st.cur_trans = child,
                                !.t = Wr(f.t, slot, ROOT)],
                      cur, inner, i + 1)
             ELSE LET node == IF f.m.heap[child].is_inner
                              THEN MEM_INNERS(f.t) + f.st.ninners * SizeofInner
                              ELSE f.st.next_leaf
                      f1 == [f EXCEPT !.st.cur_trans = child,
                                      !.st.cur_node = node,
                                      !.t = Wr(f.t, slot, node - f.t.base)]
                  IN  FinaliseInnerLoop(_qt_finalise(f1), cur, inner, i + 1)

\* Variant of the for loop of _qt_finalise_inner that lays a child leaf out
\* but writes ROOT, not its offset, into the parent's quadrant.
FinaliseInnerLoop_LeafOffsetLost(f, cur, inner, i) ==
    IF i >= QUAD
    THEN f
    ELSE LET child == f.m.heap[cur].quadrants[i + 1]
             slot == inner + i * WordBytes
         IN  IF child = NULL
             THEN FinaliseInnerLoop(
                      [f EXCEPT !.st.cur_trans = child,
                                !.t = Wr(f.t, slot, ROOT)],
                      cur, inner, i + 1)
             ELSE LET node == IF f.m.heap[child].is_inner
                              THEN MEM_INNERS(f.t) + f.st.ninners * SizeofInner
                              ELSE f.st.next_leaf
                      f1 == [f EXCEPT !.st.cur_trans = child,
                                      !.st.cur_node = node,
                                      !.t = Wr(f.t, slot,
                                               IF f.m.heap[child].is_inner
                                               THEN node - MEM_INNERS(f.t)
                                               ELSE ROOT)]
                  IN  FinaliseInnerLoop(_qt_finalise(f1), cur, inner, i + 1)

\* The for loop of _qt_finalise_inner over the quadrants i .. 3.
FinaliseInnerLoop(f, cur, inner, i) ==
    IF i >= QUAD
    THEN f
    ELSE LET child == f.m.heap[cur].quadrants[i + 1]
             slot == inner + i * WordBytes
         IN  IF child = NULL
             THEN FinaliseInnerLoop(
                      [f EXCEPT !.st.cur_trans = child,
                                !.t = Wr(f.t, slot, ROOT)],
                      cur, inner, i + 1)
             ELSE LET node == IF f.m.heap[child].is_inner
                              THEN MEM_INNERS(f.t) + f.st.ninners * SizeofInner
                              ELSE f.st.next_leaf
                      f1 == [f EXCEPT !.st.cur_trans = child,
                                      !.st.cur_node = node,
                                      !.t = Wr(f.t, slot,
                                               node - MEM_INNERS(f.t))]
                  IN  FinaliseInnerLoop(_qt_finalise(f1), cur, inner, i + 1)

_qt_finalise_inner(f) ==
    LET cur == f.st.cur_trans
        inner == f.st.cur_node
        f1 == [f EXCEPT !.st.ninners = @ + 1]
        f2 == FinaliseInnerLoop(f1, cur, inner, 0)
    IN  [f2 EXCEPT !.m = free(f2.m, cur)]

_qt_finalise(f) ==
    IF f.m.heap[f.st.cur_trans].is_inner
    THEN _qt_finalise_inner(f)
    ELSE _qt_finalise_leaf(f)

\* qt_finalise up to the optional dump: the final [m, t, st].
qt_finalise_op(m) ==
    LET bytes == _mem_size(m.qt)
        mem == _init_quadtree(_malloc(Bases.mem, bytes), m.qt)
        st == [ninners |-> 0, cur_trans |-> m.qt.root,
               cur_node |-> MEM_INNERS(mem), next_leaf |-> MEM_LEAFS(mem)]
    IN  _qt_finalise([m |-> m, t |-> mem, st |-> st])

(***************************************************************************)
(* The file codec.  A file is the sequence of the words written to it.     *)
(***************************************************************************)
\* write(fd, mem, bytes): the whole buffer, in one go.
WriteFile(t, bytes) == [i \in 1..(bytes \div WordBytes) |-> t.words[i]]

RECURSIVE ReadPages(_, _, _, _, _)
\* The page loop of _read_mem: read() takes pagesize bytes at the file
\* position pos (in words) into mem + i*pagesize.
ReadPages(t, f, pos, i, npages) ==
    IF i >= npages
    THEN [t |-> t, pos |-> pos]
    ELSE LET got == SubSeq(f, pos + 1, pos + PageWords)
             t1 == [t EXCEPT !.words =
                        [k \in DOMAIN t.words |->
                            IF k > i * PageWords /\ k <= i * PageWords + Len(got)
                            THEN got[k - i * PageWords] ELSE t.words[k]]]
         IN  ReadPages(t1, f, pos + Len(got), i + 1, npages)

_read_mem(t, f, bytes) ==
    LET pagesize == PageWords * WordBytes
        npages == bytes \div pagesize
        rest == bytes % pagesize
        r == ReadPages(t, f, 0, 0, npages)
        got == SubSeq(f, r.pos + 1, r.pos + rest \div WordBytes)
    IN  [r.t EXCEPT !.words =
            [k \in DOMAIN r.t.words |->
                IF k > npages * PageWords /\ k <= npages * PageWords + Len(got)
                THEN got[k - npages * PageWords] ELSE r.t.words[k]]]

\* qt_load: stat for the size, _malloc it, _read_mem the file into it.
qt_load_op(f) ==
    LET st_size == Len(f) * WordBytes
    IN  _read_mem(_malloc(Bases.loaded, st_size), f, st_size)

(***************************************************************************)
(* The query iterator.  An iterator is                                     *)
(*   [region, stack, so, lp, cur_item]  the fields of Qt_Iterator, the     *)
(*                  stack a sequence whose element so+1 is frame so;       *)
(*    nframes       the number of frames qt_query_itr allocated;           *)
(*    maxso         the highest frame index read or written so far;        *)
(*    frees         the number of times the iterator has been free()d.     *)
(* A frame is [node, quadrants, quadrant, within_parent].                  *)
(***************************************************************************)
FRAME(itr, so) == itr.stack[so + 1]

\* FRAME(itr,so) = fr: frame so is written, wherever the allocation ends.
SetFrame(itr, so, fr) ==
    [itr EXCEPT !.stack = IF so + 1 > Len(@) THEN Append(@, fr)
                          ELSE [@ EXCEPT ![so + 1] = fr],
                !.maxso = IF so > @ THEN so ELSE @]

\* FRAME(itr,so).quadrant++
NextQuadrant(itr, so) ==
    [itr EXCEPT !.stack[so + 1].quadrant = @ + 1]

RECURSIVE _itr_next_recursive(_, _)
RECURSIVE ItrScan(_, _)

\* The loop `while (itr->so >= 0)` of _itr_next_recursive.
ItrScan(t, itr) ==
    IF itr.so < 0
    THEN [itr EXCEPT !.lp = NULL]
    ELSE LET so == itr.so
             fr == FRAME(itr, so)
         IN  IF fr.quadrant # QUAD
             THEN LET child == Rd(t, fr.node + fr.quadrant * WordBytes)
                      sub == fr.quadrants[fr.quadrant + 1]
                  IN  IF child = ROOT
                      THEN ItrScan(t, NextQuadrant(itr, so))
                      ELSE IF OVERLAP(itr.region, sub)
                      THEN _itr_next_recursive(t,
                               SetFrame([itr EXCEPT !.so = so + 1], so + 1,
                                   [node |-> MEM_INNERS(t) + child,
                                    quadrants |-> _gen_quadrants(sub),
                                    quadrant |-> 0,
                                    within_parent |->
                                        fr.within_parent
                                            \/ CONTAINED(sub, itr.region)]))
                      ELSE ItrScan(t, NextQuadrant(itr, so))
             ELSE \* no quadrants remaining on this node: backtrack
                  IF so - 1 >= 0
                  THEN ItrScan(t, NextQuadrant([itr EXCEPT !.so = so - 1],
                                               so - 1))
                  ELSE ItrScan(t, [itr EXCEPT !.so = so - 1])

_itr_next_recursive(t, itr) ==
    IF IS_LEAF(t, FRAME(itr, itr.so).node)
    THEN [itr EXCEPT !.cur_item = 0, !.lp = FRAME(itr, itr.so).node]
    ELSE ItrScan(t, itr)

\* qt_query_itr: the stack holds qt->maxdepth frames.
qt_query_itr_op(t, region) ==
    _itr_next_recursive(t,
        [region |-> region,
         stack |-> << [node |-> MEM_ROOT(t),
                       quadrants |-> _gen_quadrants(HdrRegion(t)),
                       quadrant |-> 0, within_parent |-> FALSE] >>,
         so |-> 0, lp |-> Uninit, cur_item |-> Uninit,
         nframes |-> HdrMaxdepth(t), maxso |-> 0, frees |-> 0])

\* `leaf->n - 1 >= cur_item` in unsigned 64-bit arithmetic: 0 - 1 wraps to
\* the largest value, which no cur_item exceeds.
LeafHasItem(n, cur_item) == IF n = 0 THEN TRUE ELSE n - 1 >= cur_item

RECURSIVE qt_itr_next_op(_, _)
\* qt_itr_next: [itr |-> the iterator afterwards, ret |-> the Item * returned]
qt_itr_next_op(t, itr) ==
    IF itr.lp = NULL
    THEN [itr |-> [itr EXCEPT !.frees = @ + 1], ret |-> NULL]
    ELSE IF LeafHasItem(LeafN(t, FRAME(itr, itr.so).node), itr.cur_item)
    THEN LET itm == ItemAddr(itr.lp, itr.cur_item)
             itr1 == [itr EXCEPT !.cur_item = @ + 1]
         IN  IF in_quadrant(ItemAt(t, itm), itr.region)
             THEN [itr |-> itr1, ret |-> itm]
             ELSE qt_itr_next_op(t, itr1)
    ELSE qt_itr_next_op(t,
             _itr_next_recursive(t,
                 NextQuadrant([itr EXCEPT !.so = @ - 1], itr.so - 1)))

(***************************************************************************)
(* The array wrappers.  Each returns [items |-> the array as far as it was *)
(* written, n |-> the count written back through maxn, itr |-> the         *)
(* iterator it used, as it left it].                                       *)
(***************************************************************************)
RECURSIVE AryLoop(_, _, _, _, _)
\* for (i=0; (items[i] = qt_itr_next(itr)) != NULL; i++)
AryLoop(t, itr, items, i, maxn) ==
    LET r == qt_itr_next_op(t, itr)
        items1 == Append(items, r.ret)
    IN  IF r.ret = NULL
        THEN [items |-> items1, n |-> i, itr |-> r.itr]
        ELSE IF maxn > 0 /\ i >= maxn
        THEN [items |-> items1, n |-> i, itr |-> r.itr]
        ELSE AryLoop(t, r.itr, items1, i + 1, maxn)

qt_query_ary_op(t, region, maxn) ==
    LET r == AryLoop(t, qt_query_itr_op(t, region), <<>>, 0, maxn)
    IN  [r EXCEPT !.itr.frees = @ + 1]

RECURSIVE IncludeLoop(_, _, _, _, _)
\* The copy loops of _include_leaf over the leaf's items j .. n-1.
IncludeLoop(t, leaf, j, region, within) ==
    IF j >= LeafN(t, leaf)
    THEN <<>>
    ELSE (IF within \/ in_quadrant(ItemAt(t, ItemAddr(leaf, j)), region)
          THEN <<ItemAddr(leaf, j)>> ELSE <<>>)
         \o IncludeLoop(t, leaf, j + 1, region, within)

_include_leaf(t, items, leaf, quadrant, within) ==
    items \o IncludeLoop(t, leaf, 0, quadrant, within)

RECURSIVE FastLoop(_, _, _, _)
\* while (itr->lp != NULL)
FastLoop(t, itr, items, maxn) ==
    IF itr.lp = NULL
    THEN [items |-> items, n |-> Len(items), itr |-> itr]
    ELSE IF maxn # 0 /\ Len(items) >= maxn
    THEN [items |-> items, n |-> Len(items), itr |-> itr]
    ELSE FastLoop(t,
             _itr_next_recursive(t,
                 NextQuadrant([itr EXCEPT !.so = @ - 1], itr.so - 1)),
             _include_leaf(t, items, itr.lp, itr.region,
                           FRAME(itr, itr.so).within_parent),
             maxn)

qt_query_ary_fast_op(t, region, maxn) ==
    LET r == FastLoop(t, qt_query_itr_op(t, region), <<>>, maxn)
    IN  [r EXCEPT !.itr.frees = @ + 1]

\* Undefined behaviour of an iterator's life so far: a frame outside the
\* allocated stack was used, or the iterator was free()d twice.
StackOverrun(itr) == itr.maxso >= itr.nframes
DoubleFree(itr) == itr.frees > 1
Undefined(itr) == StackOverrun(itr) \/ DoubleFree(itr)

(***************************************************************************)
(* State.                                                                  *)
(***************************************************************************)
\* The regions queried: the bounding region, one containing it, the two
\* quadrants sharing the corner (8,8), and one inside the NW quadrant.
Regions ==
    { TreeRegion,
      [ne |-> <<20, 20>>, sw |-> <<0 - 4, 0 - 4>>],
      [ne |-> <<8, 8>>, sw |-> <<0, 0>>],
      [ne |-> <<16, 16>>, sw |-> <<8, 8>>],
      [ne |-> <<6, 14>>, sw |-> <<2, 10>>] }

VARIABLES
    phase,      \* "building" | "finalised" | "aborted"
    qt,         \* the UFQuadTree struct
    heap,       \* the builder's malloc()ed objects
    inserted,   \* history: the items handed to qt_insert, in call order
    tree,       \* the buffer qt_finalise returned
    fin,        \* the FinaliseState when the layout pass ended
    file,       \* the dump file: [exists, words]
    openfds,    \* who opened the file descriptors that are still open
    loaded,     \* the buffer qt_load returned
    query,      \* the query call in progress or last made
    itr,        \* the iterator of that query
    out         \* the Item pointers that query has returned, in order

vars == <<phase, qt, heap, inserted, tree, fin, file, openfds, loaded,
          query, itr, out>>

NoFile == [exists |-> FALSE, words |-> <<>>]

\* query.fn: "none" | "qt_query_itr" | "qt_query_ary" | "qt_query_ary_fast";
\* query.state: "none" | "open" (an iterator with items left) | "exhausted"
\* (qt_itr_next returned NULL) | "returned" (an array call returned) |
\* "aborted" (the call ran into undefined behaviour and the process died).
NoQuery ==
    [fn |-> "none", which |-> "mem", region |-> TreeRegion, maxn |-> 0,
     n |-> 0, state |-> "none"]

NoItr ==
    [region |-> TreeRegion, stack |-> <<>>, so |-> 0, lp |-> NULL,
     cur_item |-> 0, nframes |-> 0, maxso |-> 0, frees |-> 0]

\* The buffer a query names.
Tree(which) == IF which = "mem" THEN tree ELSE loaded
Trees == {"mem"} \cup (IF loaded # NoTree THEN {"loaded"} ELSE {})

Init ==
    /\ phase = "building"
    /\ \E b \in BucketSizes :
           LET m == qt_create_quadtree(TreeRegion, b)
           IN  qt = m.qt /\ heap = m.heap
    /\ inserted = <<>>
    /\ tree = NoTree
    /\ fin = [ninners |-> 0, cur_trans |-> NULL, cur_node |-> 0,
              next_leaf |-> 0]
    /\ file = NoFile
    /\ openfds = {}
    /\ loaded = NoTree
    /\ query = NoQuery
    /\ itr = NoItr
    /\ out = <<>>

\* qt_insert(qt, item): the item's value is its ordinal, its coordinates any
\* point of Points.
qt_insert ==
    /\ phase = "building"
    /\ qt.size < MaxItems
    /\ \E p \in Points :
           LET item == [value |-> qt.size + 1, coords |-> p]
               m == qt_insert_op([qt |-> qt, heap |-> heap], item)
           IN  /\ qt' = m.qt
               /\ heap' = m.heap
               /\ inserted' = Append(inserted, item)
    /\ UNCHANGED <<phase, tree, fin, file, openfds, loaded, query, itr, out>>

\* qt_finalise(qt_, file): with a path the buffer is also written to the
\* file; the descriptor is not closed.
qt_finalise ==
    /\ phase = "building"
    /\ \E path \in {"NULL", "dump"} :
           LET f == qt_finalise_op([qt |-> qt, heap |-> heap])
           IN  /\ heap' = f.m.heap
               /\ tree' = f.t
               /\ fin' = f.st
               /\ IF path = "NULL"
                  THEN UNCHANGED <<file, openfds>>
                  ELSE /\ file' = [exists |-> TRUE,
                                   words |-> WriteFile(f.t, _mem_size(qt))]
                       /\ openfds' = openfds \cup {"qt_finalise"}
    /\ phase' = "finalised"
    /\ UNCHANGED <<qt, inserted, loaded, query, itr, out>>

\* qt_load(file): open, fstat, _malloc, _read_mem, close.
qt_load ==
    /\ phase = "finalised"
    /\ file.exists
    /\ loaded = NoTree
    /\ query.state = "none"
    /\ loaded' = qt_load_op(file.words)
    /\ UNCHANGED <<phase, qt, heap, inserted, tree, fin, file, openfds,
                   query, itr, out>>

\* A call that ran into undefined behaviour either goes on as if the memory
\* had been its own, or the process dies in it.
Outcomes(i) == IF Undefined(i) THEN {"goes on", "dies"} ELSE {"goes on"}

\* qt_query_itr(qt, region)
qt_query_itr ==
    /\ phase = "finalised"
    /\ query.state = "none"
    /\ \E which \in Trees, region \in Regions :
           LET i == qt_query_itr_op(Tree(which), region)
           IN  /\ itr' = i
               /\ out' = <<>>
               /\ \E o \in Outcomes(i) :
                      /\ query' = [fn |-> "qt_query_itr", which |-> which,
                                   region |-> region, maxn |-> 0, n |-> 0,
                                   state |-> IF o = "dies" THEN "aborted"
                                             ELSE "open"]
                      /\ phase' = IF o = "dies" THEN "aborted" ELSE phase
    /\ UNCHANGED <<qt, heap, inserted, tree, fin, file, openfds, loaded>>

\* qt_itr_next(itr), on the iterator qt_query_itr returned.
qt_itr_next ==
    /\ phase = "finalised"
    /\ query.fn = "qt_query_itr"
    /\ query.state = "open"
    /\ LET r == qt_itr_next_op(Tree(query.which), itr)
       IN  /\ itr' = r.itr
           /\ out' = IF r.ret = NULL THEN out ELSE Append(out, r.ret)
           /\ query' = [query EXCEPT
                            !.state = IF r.ret = NULL THEN "exhausted" ELSE @,
                            !.n = Len(out')]
    /\ UNCHANGED <<phase, qt, heap, inserted, tree, fin, file, openfds,
                   loaded>>

\* What an array call leaves: the first n pointers of the array it returns
\* and the count written back, unless the process died in it.
ArrayCall(fn, which, region, maxn, r) ==
    /\ itr' = r.itr
    /\ \E o \in Outcomes(r.itr) :
           /\ query' = [fn |-> fn, which |-> which, region |-> region,
                        maxn |-> maxn, n |-> IF o = "dies" THEN 0 ELSE r.n,
                        state |-> IF o = "dies" THEN "aborted"
                                  ELSE "returned"]
           /\ out' = IF o = "dies" THEN <<>> ELSE SubSeq(r.items, 1, r.n)
           /\ phase' = IF o = "dies" THEN "aborted" ELSE phase
    /\ UNCHANGED <<qt, heap, inserted, tree, fin, file, openfds, loaded>>

\* qt_query_ary(quadtree, region, &maxn)
qt_query_ary ==
    /\ phase = "finalised"
    /\ query.state = "none"
    /\ \E which \in Trees, region \in Regions, maxn \in 0..MaxN :
           ArrayCall("qt_query_ary", which, region, maxn,
                     qt_query_ary_op(Tree(which), region, maxn))

\* qt_query_ary_fast(quadtree, region, &maxn)
qt_query_ary_fast ==
    /\ phase = "finalised"
    /\ query.state = "none"
    /\ \E which \in Trees, region \in Regions, maxn \in 0..MaxN :
           ArrayCall("qt_query_ary_fast", which, region, maxn,
                     qt_query_ary_fast_op(Tree(which), region, maxn))

\* The caller is done with the result of a query (it frees the array it was
\* given) and is ready to make another.
ReleaseResult ==
    /\ phase = "finalised"
    /\ query.state \in {"exhausted", "returned"}
    /\ query' = NoQuery
    /\ itr' = NoItr
    /\ out' = <<>>
    /\ UNCHANGED <<phase, qt, heap, inserted, tree, fin, file, openfds,
                   loaded>>

Next ==
    \/ qt_insert
    \/ qt_finalise
    \/ qt_load
    \/ qt_query_itr
    \/ qt_itr_next
    \/ qt_query_ary
    \/ qt_query_ary_fast
    \/ ReleaseResult

Spec == Init /\ [][Next]_vars

(***************************************************************************)
(* What the claims speak of, stated from the history of the calls and from *)
(* the shape of the builder tree, not from the query code.                 *)
(***************************************************************************)
\* sw <= coords <= ne on both axes.
InRegion(item, Q) ==
    /\ Q.sw[1] <= item.coords[1] /\ item.coords[1] <= Q.ne[1]
    /\ Q.sw[2] <= item.coords[2] /\ item.coords[2] <= Q.ne[2]

\* The inserted items inside Q, in insertion order.
Matching(Q) == SelectSeq(inserted, LAMBDA it : InRegion(it, Q))

Range(seq) == {seq[k] : k \in DOMAIN seq}

\* The items the pointers of `out` point at, in the tree that was queried.
OutItems == [k \in DOMAIN out |-> ItemAt(Tree(query.which), out[k])]

\* The TransNodes of the builder: all of them, its leaves, its inner nodes.
Nodes == {a \in DOMAIN heap : heap[a].kind = "node"}
Leafs == {a \in Nodes : ~heap[a].is_inner}
Inners == {a \in Nodes : heap[a].is_inner}
Children(a) == {heap[a].quadrants[q] : q \in 1..QUAD} \ {NULL}

\* The items of builder leaf a, as inserted.
LeafValues(a) == {heap[p].value : p \in Range(heap[heap[a].items].slots)}
LeafInInsertionOrder(a) ==
    SelectSeq(inserted, LAMBDA it : it.value \in LeafValues(a))

RECURSIVE DepthFirst(_)
\* The items under builder node a: children in the order NW, NE, SW, SE,
\* the items of one leaf in insertion order.
DepthFirst(a) ==
    IF heap[a].is_inner
    THEN LET sub(q) == IF heap[a].quadrants[q + 1] = NULL THEN <<>>
                       ELSE DepthFirst(heap[a].quadrants[q + 1])
         IN  sub(NW) \o sub(NE) \o sub(SW) \o sub(SE)
    ELSE LeafInInsertionOrder(a)

\* The traversal order of the items inside Q.
Traversal(Q) == SelectSeq(DepthFirst(qt.root), LAMBDA it : InRegion(it, Q))

IsPrefix(a, b) == Len(a) <= Len(b) /\ a = SubSeq(b, 1, Len(a))

Min(a, b) == IF a < b THEN a ELSE b

RECURSIVE LeafsUnder(_, _)
\* The addresses of the Leaf records under the record at node, found through
\* the offsets of the Inner records.
LeafsUnder(t, node) ==
    IF IS_LEAF(t, node)
    THEN <<node>>
    ELSE LET sub(q) == IF Rd(t, node + q * WordBytes) = ROOT THEN <<>>
                       ELSE LeafsUnder(t, MEM_INNERS(t)
                                              + Rd(t, node + q * WordBytes))
         IN  sub(NW) \o sub(NE) \o sub(SW) \o sub(SE)

RECURSIVE InnersUnder(_, _)
\* The addresses of the Inner records at and under the record at node.
InnersUnder(t, node) ==
    IF IS_LEAF(t, node)
    THEN <<>>
    ELSE LET sub(q) == IF Rd(t, node + q * WordBytes) = ROOT THEN <<>>
                       ELSE InnersUnder(t, MEM_INNERS(t)
                                               + Rd(t, node + q * WordBytes))
         IN  <<node>> \o sub(NW) \o sub(NE) \o sub(SW) \o sub(SE)

RECURSIVE SumN(_, _)
SumN(t, leafs) ==
    IF leafs = <<>> THEN 0 ELSE LeafN(t, Head(leafs)) + SumN(t, Tail(leafs))

\* All inserted items share one coordinate pair.
Coincident == \A i, j \in DOMAIN inserted : inserted[i].coords = inserted[j].coords

Finalised == phase \in {"finalised", "aborted"}

RECURSIVE Drain(_, _)
\* The Item pointers repeated qt_itr_next calls return until the NULL.
Drain(t, i) ==
    LET r == qt_itr_next_op(t, i)
    IN  IF r.ret = NULL THEN <<>> ELSE <<r.ret>> \o Drain(t, r.itr)

\* Pointers into tree t as offsets from its start.
Offsets(t, ptrs) == [k \in DOMAIN ptrs |-> ptrs[k] - t.base]

(***************************************************************************)
(* C1.                                                                     *)
(***************************************************************************)
\* C1: on every finalised tree, the one built by no qt_insert included, and
\* for every query region, a qt_query_itr / qt_itr_next run goes on to
\* exhaustion, and at exhaustion it has returned exactly the inserted items
\* inside the region (sw <= coords <= ne on both axes), each once and no
\* other item.
C1_QueryReturnsExactlyTheItemsInside ==
    (query.fn = "qt_query_itr" /\ query.state # "none") =>
        /\ query.state \in {"open", "exhausted"}
        /\ query.state = "exhausted" =>
               /\ Len(out) = Len(Matching(query.region))
               /\ Range(OutItems) = Range(Matching(query.region))

\* What holds of C1: an iterator that was driven to exhaustion has returned
\* exactly the inserted items inside its region, each once.
ExhaustedQueryIsExact ==
    (query.fn = "qt_query_itr" /\ query.state = "exhausted") =>
        /\ Len(out) = Len(Matching(query.region))
        /\ Range(OutItems) = Range(Matching(query.region))

(***************************************************************************)
(* C2.                                                                     *)
(***************************************************************************)
\* C2: after every completed qt_insert every leaf of the builder holds at
\* most bucket_size items unless all its items have identical coordinates.
C2_LeafAtMostBucketSizeUnlessCoincident ==
    phase = "building" =>
        \A a \in Leafs :
            \/ heap[a].n <= qt.maxfill
            \/ \A p1, p2 \in Range(heap[heap[a].items].slots) :
                   heap[p1].coords = heap[p2].coords

(***************************************************************************)
(* C3.                                                                     *)
(***************************************************************************)
\* C3: an array call that returned, qt_query_ary or qt_query_ary_fast, gave
\* the first min(max_n, m) matching items in traversal order for max_n > 0
\* (so never more than max_n) and all m matching items for max_n = 0, and
\* wrote that count back.
C3_ArrayHoldsFirstMaxN ==
    (query.fn \in {"qt_query_ary", "qt_query_ary_fast"}
        /\ query.state = "returned") =>
        LET all == Traversal(query.region)
            want == IF query.maxn > 0 THEN Min(query.maxn, Len(all))
                    ELSE Len(all)
        IN  /\ query.n = want
            /\ OutItems = SubSeq(all, 1, want)

(***************************************************************************)
(* C4.                                                                     *)
(***************************************************************************)
\* C4 as stated: with k >= 1 items inserted, all at one coordinate pair, the
\* finalised tree records maxdepth 1, ninners 1 and nleafs 1 and its single
\* leaf holds all k items.
C4_CoincidentDepthOne ==
    (phase = "finalised" /\ Len(inserted) >= 1 /\ Coincident) =>
        /\ HdrMaxdepth(tree) = 1
        /\ HdrNinners(tree) = 1
        /\ HdrNleafs(tree) = 1
        /\ Len(LeafsUnder(tree, MEM_ROOT(tree))) = 1
        /\ SumN(tree, LeafsUnder(tree, MEM_ROOT(tree))) = Len(inserted)

\* C4 amended: with k >= 1 items inserted, all at one coordinate pair, and
\* any bucket size, the builder and the finalised tree record maxdepth 2
\* (the root at depth 1, the leaf at depth 2), ninners 1 and nleafs 1, and
\* the single leaf holds all k items: its bucket is doubled, never split.
C4_CoincidentSingleLeaf ==
    (Len(inserted) >= 1 /\ Coincident) =>
        /\ qt.maxdepth = 2 /\ qt.ninners = 1 /\ qt.nleafs = 1
        /\ Cardinality(Leafs) = 1
        /\ \A a \in Leafs : heap[a].n = Len(inserted)
        /\ phase = "finalised" =>
               /\ HdrMaxdepth(tree) = 2
               /\ HdrNinners(tree) = 1
               /\ HdrNleafs(tree) = 1
               /\ Len(LeafsUnder(tree, MEM_ROOT(tree))) = 1
               /\ SumN(tree, LeafsUnder(tree, MEM_ROOT(tree))) = Len(inserted)

\* C4 witness: a finalised tree of coincident items, more of them than the
\* bucket size.
C4_Witness ==
    /\ phase = "finalised" /\ Coincident
    /\ Len(inserted) > qt.maxfill
    /\ Len(inserted) = MaxItems

(***************************************************************************)
(* C5.                                                                     *)
(***************************************************************************)
\* C5 as stated: in every builder state from qt_create_quadtree on (zero
\* inserts included) and in the finalised tree, every inner node has at
\* least one present child.
C5_EveryInnerHasAChild ==
    /\ \A a \in Inners : Children(a) # {}
    /\ phase = "finalised" =>
           \A node \in Range(InnersUnder(tree, MEM_ROOT(tree))) :
               \E q \in NW..SE : Rd(tree, node + q * WordBytes) # ROOT

\* C5 amended: once at least one item has been inserted, every inner node of
\* the builder and of the tree finalised from it has at least one present
\* child; before the first insert the root is an inner node with no child,
\* and so is the root of the tree finalised from an empty builder.
C5_EveryInnerHasAChildOnceNonEmpty ==
    /\ \A a \in Inners : (Children(a) = {}) <=> (a = qt.root /\ qt.size = 0)
    /\ phase = "finalised" =>
           \A node \in Range(InnersUnder(tree, MEM_ROOT(tree))) :
               (\A q \in NW..SE : Rd(tree, node + q * WordBytes) = ROOT)
                   <=> (node = MEM_ROOT(tree) /\ HdrSize(tree) = 0)

\* C5 witness: a finalised tree with an inner node made by a split.
C5_Witness ==
    /\ phase = "finalised"
    /\ Len(InnersUnder(tree, MEM_ROOT(tree))) >= 2
    /\ Cardinality(Inners) >= 2

(***************************************************************************)
(* C6.                                                                     *)
(***************************************************************************)
\* C6: after n qt_insert calls and qt_finalise, the header's size is n and
\* the n fields of the finalised leaves add up to n.
C6_ItemCountKept ==
    phase = "finalised" =>
        /\ HdrSize(tree) = Len(inserted)
        /\ SumN(tree, LeafsUnder(tree, MEM_ROOT(tree))) = Len(inserted)

\* C6 witness: a finalised tree of MaxItems items in which a leaf was split
\* and a bucket was grown.
C6_Witness ==
    /\ phase = "finalised"
    /\ Len(inserted) = MaxItems
    /\ HdrNinners(tree) >= 2
    /\ \E a \in Leafs : heap[a].size > qt.maxfill

(***************************************************************************)
(* C7.                                                                     *)
(***************************************************************************)
\* C7: a qt_query_ary call with max_n = 0 returns, and returns the sequence
\* of item pointers that qt_query_ary_fast with max_n = 0 returns and that
\* repeated qt_itr_next calls return.
C7_AryAndFastAgree ==
    (query.fn = "qt_query_ary" /\ query.maxn = 0 /\ query.state # "none") =>
        LET t == Tree(query.which)
        IN  /\ query.state = "returned"
            /\ out = Drain(t, qt_query_itr_op(t, query.region))
            /\ out = LET r == qt_query_ary_fast_op(t, query.region, 0)
                     IN  SubSeq(r.items, 1, r.n)

(***************************************************************************)
(* C8.                                                                     *)
(***************************************************************************)
\* C8: what an iterator has returned so far is the beginning of the items
\* inside its region taken leaf by leaf depth first, children in the order
\* NW, NE, SW, SE, and within one leaf in insertion order; at exhaustion it
\* is all of them.
C8_EmissionOrder ==
    (query.fn = "qt_query_itr" /\ query.state \in {"open", "exhausted"}) =>
        /\ IsPrefix(OutItems, Traversal(query.region))
        /\ query.state = "exhausted" => OutItems = Traversal(query.region)

\* C8 witness: an exhausted iterator that returned MaxItems items from at
\* least two leaves, one of them holding two items whose leaf was made by a
\* split.
C8_Witness ==
    /\ query.fn = "qt_query_itr" /\ query.state = "exhausted"
    /\ Len(out) = MaxItems
    /\ Cardinality(Inners) >= 2
    /\ Cardinality(Leafs) >= 2
    /\ \E a \in Leafs : heap[a].n >= 2

(***************************************************************************)
(* C9.                                                                     *)
(***************************************************************************)
\* C9: the buffer qt_load makes of the file qt_finalise wrote has the length
\* and the contents of the finalised buffer, and every region query on it
\* runs and returns the items at the same offsets, in the same order, as the
\* query on the finalised buffer.
C9_RoundTrip ==
    loaded # NoTree =>
        /\ loaded.bytes = tree.bytes
        /\ loaded.words = tree.words
        /\ (query.fn = "qt_query_itr" /\ query.which = "loaded"
               /\ query.state # "none") =>
               /\ query.state \in {"open", "exhausted"}
               /\ IsPrefix(Offsets(loaded, out),
                      Offsets(tree,
                          Drain(tree, qt_query_itr_op(tree, query.region))))

\* What holds of C9: the loaded buffer has the length and the contents of
\* the finalised buffer, and the item pointers a query walks out of it are,
\* as offsets, those the same query walks out of the finalised buffer.
LoadedBufferIsIdentical ==
    loaded # NoTree =>
        /\ loaded.bytes = tree.bytes
        /\ loaded.words = tree.words
        /\ \A Q \in Regions :
               Offsets(loaded, Drain(loaded, qt_query_itr_op(loaded, Q)))
                   = Offsets(tree, Drain(tree, qt_query_itr_op(tree, Q)))

(***************************************************************************)
(* C10.                                                                    *)
(***************************************************************************)
\* C10: after qt_finalise every builder node, every bucket array (those
\* replaced in a split included) and every item copy has been freed exactly
\* once.
C10_BuilderMemoryFreedOnce ==
    Finalised =>
        \A a \in DOMAIN heap :
            heap[a].kind \in {"node", "bucket", "item"} => heap[a].frees = 1

\* C10 witness: a finalised builder one of whose bucket arrays was replaced
\* in a split (no leaf holds it any more) and another was grown.
C10_Witness ==
    /\ phase = "finalised"
    /\ \E b \in DOMAIN heap :
           /\ heap[b].kind = "bucket"
           /\ \A a \in Leafs : heap[a].items # b
    /\ \E a \in Leafs : heap[a].size > qt.maxfill

(***************************************************************************)
(* C11.                                                                    *)
(***************************************************************************)
\* C11: the iterator of every query, on every finalised tree (the one built
\* by no qt_insert included), was allocated maxdepth + 1 frames, and the
\* highest stack offset at which it has read or written a frame is below the
\* number of frames allocated.
C11_StackHoldsEveryFrameUsed ==
    query.state # "none" =>
        /\ itr.nframes = HdrMaxdepth(Tree(query.which)) + 1
        /\ itr.maxso < itr.nframes

\* What holds of C11: the stack has maxdepth frames, and on a tree with at
\* least one item no frame at or beyond offset maxdepth is used.
StackOfMaxdepthFramesSuffices ==
    query.state # "none" =>
        /\ itr.nframes = HdrMaxdepth(Tree(query.which))
        /\ HdrSize(Tree(query.which)) >= 1 => itr.maxso < itr.nframes

(***************************************************************************)
(* C12.                                                                    *)
(***************************************************************************)
\* C12: no iterator is ever free()d twice, and the iterator of every query
\* that ended (qt_itr_next returned NULL, or an array call returned) has
\* been free()d exactly once.
C12_IteratorReleasedExactlyOnce ==
    /\ itr.frees <= 1
    /\ query.state \in {"exhausted", "returned"} => itr.frees = 1

\* What holds of C12: the iterator is free()d once by exhaustion through
\* qt_itr_next, once by qt_query_ary_fast, once by qt_query_ary when max_n
\* stops it before the items run out, and twice by qt_query_ary when the
\* items run out.
IteratorFreesByPath ==
    /\ (query.fn = "qt_query_itr" /\ query.state = "exhausted")
           => itr.frees = 1
    /\ (query.fn = "qt_query_itr" /\ query.state = "open") => itr.frees = 0
    /\ (query.fn = "qt_query_ary_fast" /\ query.state # "none")
           => itr.frees = 1
    /\ (query.fn = "qt_query_ary" /\ query.state # "none") =>
           itr.frees = IF query.maxn > 0
                            /\ Len(Matching(query.region)) > query.maxn
                       THEN 1 ELSE 2

(***************************************************************************)
(* C13.                                                                    *)
(***************************************************************************)
\* The leaf records of the buffer t.
FinalLeafs(t) == Range(LeafsUnder(t, MEM_ROOT(t)))

\* ptr is the address of one of the n items of a leaf record of t.
IsItemOfALeaf(t, ptr) ==
    \E leaf \in FinalLeafs(t) :
        \E j \in 0..(LeafN(t, leaf) - 1) : ptr = ItemAddr(leaf, j)

\* C13: after every qt_insert every leaf of the builder holds at least one
\* item, every leaf record of a finalised tree has n >= 1, the leaf an open
\* iterator stands on has n >= 1 (so n - 1 does not wrap) with cur_item no
\* further than n, and every pointer a query returned is the address of an
\* item with index below n of a leaf.
C13_NoEmptyLeaf ==
    /\ \A a \in Leafs : heap[a].n >= 1
    /\ Finalised =>
           /\ \A leaf \in FinalLeafs(tree) : LeafN(tree, leaf) >= 1
           /\ (query.fn = "qt_query_itr" /\ query.state = "open"
                   /\ itr.lp # NULL) =>
                  /\ LeafN(Tree(query.which), itr.lp) >= 1
                  /\ itr.cur_item <= LeafN(Tree(query.which), itr.lp)
           /\ \A k \in DOMAIN out : IsItemOfALeaf(Tree(query.which), out[k])

\* C13 witness: an iterator that stands past the last item of one leaf of a
\* tree of several leaves made by a split, having returned at least two
\* items: the next qt_itr_next evaluates n - 1 >= cur_item with cur_item = n.
C13_Witness ==
    /\ query.fn = "qt_query_itr" /\ query.state = "open"
    /\ itr.lp # NULL
    /\ itr.cur_item = LeafN(Tree(query.which), itr.lp)
    /\ Len(out) >= 2
    /\ Cardinality(FinalLeafs(tree)) >= 2
    /\ HdrNinners(tree) >= 2

(***************************************************************************)
(* C14.                                                                    *)
(***************************************************************************)
\* The midpoint (mx, my) of quadrant Q.
Mid(Q) == << Q.sw[1] + (Q.ne[1] - Q.sw[1]) \div 2,
             Q.sw[2] + (Q.ne[2] - Q.sw[2]) \div 2 >>

\* The quarter of Q that child c (NW, NE, SW or SE) occupies.
Quarter(Q, c) ==
    LET east == c \in {NE, SE}
        north == c \in {NW, NE}
    IN  [ne |-> << IF east THEN Q.ne[1] ELSE Mid(Q)[1],
                   IF north THEN Q.ne[2] ELSE Mid(Q)[2] >>,
         sw |-> << IF east THEN Mid(Q)[1] ELSE Q.sw[1],
                   IF north THEN Mid(Q)[2] ELSE Q.sw[2] >>]

\* The child of a node of quadrant Q an item at coords belongs to: east iff
\* x >= mx, north iff y >= my.
ChildOf(coords, Q) ==
    IF coords[1] >= Mid(Q)[1]
    THEN (IF coords[2] >= Mid(Q)[2] THEN NE ELSE SE)
    ELSE (IF coords[2] >= Mid(Q)[2] THEN NW ELSE SW)

RECURSIVE ItemsUnder(_)
\* The item copies stored in the leaves at and under builder node a.
ItemsUnder(a) ==
    IF heap[a].is_inner
    THEN UNION {ItemsUnder(c) : c \in Children(a)}
    ELSE Range(heap[heap[a].items].slots)

RECURSIVE WellPlaced(_, _)
\* Under builder node a, whose quadrant is Q, every item is in the child the
\* rule gives it at every inner node and inside the quadrant of its leaf.
WellPlaced(a, Q) ==
    IF heap[a].is_inner
    THEN \A c \in NW..SE :
             heap[a].quadrants[c + 1] # NULL =>
                 /\ \A p \in ItemsUnder(heap[a].quadrants[c + 1]) :
                        ChildOf(heap[p].coords, Q) = c
                 /\ WellPlaced(heap[a].quadrants[c + 1], Quarter(Q, c))
    ELSE \A p \in Range(heap[heap[a].items].slots) : InRegion(heap[p], Q)

\* C14: after every qt_insert, every item stored in a builder leaf lies
\* inside the quadrant reached from the bounding region along the leaf's
\* path, and at every inner node on that path it is in the child the rule
\* "east iff x >= mx, north iff y >= my" gives it.
C14_ItemsInsideTheirLeafQuadrant ==
    phase = "building" => WellPlaced(qt.root, qt.region)

\* C14 witness: a builder in which a split two levels below the root has
\* redistributed items, one of them on the midpoint (12,12) of the quadrant
\* (8,8)-(16,16) that was split.
C14_Witness ==
    /\ phase = "building"
    /\ qt.maxdepth >= 3
    /\ \E a \in Inners \ {qt.root} :
           /\ heap[a].quadrants[NE + 1] # NULL
           /\ \E p \in ItemsUnder(heap[a].quadrants[NE + 1]) :
                  heap[p].coords = <<12, 12>>
           /\ Cardinality(Children(a)) >= 2

(***************************************************************************)
(* C15.                                                                    *)
(***************************************************************************)
\* The size in bytes of the inner array of buffer t.
InnersBytes(t) == HdrNinners(t) * SizeofInner

\* The record of n items at offset off holds builder leaf a: it lies inside
\* the buffer and has a's count and a's items, in a's order.
HoldsLeaf(t, off, a) ==
    LET leaf == MEM_INNERS(t) + off
        slots == heap[heap[a].items].slots
    IN  /\ leaf + SizeofLeaf + heap[a].n * SizeofItem <= t.base + t.bytes
        /\ LeafN(t, leaf) = heap[a].n
        /\ \A j \in 0..(heap[a].n - 1) :
               ItemAt(t, ItemAddr(leaf, j))
                   = [value |-> heap[slots[j + 1]].value,
                      coords |-> heap[slots[j + 1]].coords]

RECURSIVE HoldsInner(_, _, _)
\* The inner record at offset off holds builder inner node a: each of its
\* entries is 0 exactly when a has no such child, and else the offset of the
\* record that holds the child, an inner offset for an inner child and a
\* leaf offset for a leaf child.
HoldsInner(t, off, a) ==
    \A c \in NW..SE :
        LET child == heap[a].quadrants[c + 1]
            entry == Rd(t, MEM_INNERS(t) + off + c * WordBytes)
        IN  /\ (entry = 0) <=> (child = NULL)
            /\ child # NULL =>
                   IF heap[child].is_inner
                   THEN /\ entry % SizeofInner = 0
                        /\ entry > 0 /\ entry < InnersBytes(t)
                        /\ HoldsInner(t, entry, child)
                   ELSE /\ entry >= InnersBytes(t)
                        /\ entry % WordBytes = 0
                        /\ HoldsLeaf(t, entry, child)

\* The places (index of the inner record, quadrant) of the non-zero entries
\* of the inner array of t.
Entries(t) ==
    {e \in (0..(HdrNinners(t) - 1)) \X (NW..SE) :
        Rd(t, MEM_INNERS(t) + e[1] * SizeofInner + e[2] * WordBytes) # 0}

EntryAt(t, e) == Rd(t, MEM_INNERS(t) + e[1] * SizeofInner + e[2] * WordBytes)

\* C15: in a finalised tree every entry of every inner record is 0 exactly
\* when the builder node has no such child, and otherwise the offset from
\* the inner array of the start of the child's record: a non-zero multiple
\* of the inner size below ninners * sizeof(Inner) for an inner child, an
\* offset at or beyond it and inside the buffer for a leaf child; and no two
\* entries hold the same non-zero offset.
C15_OffsetsNameTheChildren ==
    phase = "finalised" =>
        /\ HoldsInner(tree, 0, qt.root)
        /\ \A e1, e2 \in Entries(tree) :
               EntryAt(tree, e1) = EntryAt(tree, e2) => e1 = e2

\* C15 witness: a finalised tree whose root has an inner child (a non-zero
\* offset below the inner array's size) that has at least two leaf children
\* (offsets beyond it).
C15_Witness ==
    /\ phase = "finalised"
    /\ HdrNinners(tree) >= 2
    /\ \E c \in NW..SE :
           LET child == heap[qt.root].quadrants[c + 1]
           IN  /\ child # NULL
               /\ heap[child].is_inner
               /\ Cardinality(Children(child)) >= 2
               /\ \A g \in Children(child) : ~heap[g].is_inner

(***************************************************************************)
(* C16.                                                                    *)
(***************************************************************************)
\* The leaf records at leafs[k .. ] follow one another without gap or
\* overlap, the first of them at address at; the address after the last.
RECURSIVE EndOfLeafs(_, _, _, _)
EndOfLeafs(t, leafs, k, at) ==
    IF k > Len(leafs)
    THEN at
    ELSE IF leafs[k] # at
    THEN 0
    ELSE EndOfLeafs(t, leafs, k + 1,
                    at + SizeofLeaf + LeafN(t, leafs[k]) * SizeofItem)

\* C16: in every builder state ninners and nleafs are the numbers of inner
\* and leaf nodes of the builder tree; the layout pass writes exactly
\* ninners inner records, one per slot of the inner array, and nleafs leaf
\* records, one after the other from MEM_LEAFS to the end of the buffer,
\* where its leaf cursor ends: header size + ninners * inner size + nleafs *
\* leaf header size + item count * item size; nothing is written outside the
\* buffer and no word of it is left unwritten.
C16_CountersAndLayoutExact ==
    /\ qt.ninners = Cardinality(Inners)
    /\ qt.nleafs = Cardinality(Leafs)
    /\ phase = "finalised" =>
           LET inners == InnersUnder(tree, MEM_ROOT(tree))
               leafs == LeafsUnder(tree, MEM_ROOT(tree))
               end == SizeofQuadTree + qt.ninners * SizeofInner
                          + qt.nleafs * SizeofLeaf + qt.size * SizeofItem
           IN  /\ tree.bytes = end
               /\ fin.ninners = qt.ninners
               /\ Len(inners) = qt.ninners
               /\ Range(inners) = {MEM_INNERS(tree) + k * SizeofInner :
                                       k \in 0..(qt.ninners - 1)}
               /\ Len(leafs) = qt.nleafs
               /\ EndOfLeafs(tree, leafs, 1, MEM_LEAFS(tree))
                      = tree.base + end
               /\ fin.next_leaf = tree.base + end
               /\ tree.oob = {}
               /\ \A k \in DOMAIN tree.words : tree.words[k] # Uninit

\* C16 witness: a finalised tree of MaxItems items with two inner records
\* and at least two leaf records, a split having turned a leaf into an
\* inner node.
C16_Witness ==
    /\ phase = "finalised"
    /\ qt.size = MaxItems
    /\ qt.ninners >= 2
    /\ qt.nleafs >= 2
    /\ fin.next_leaf = tree.base + tree.bytes

(***************************************************************************)
(* C17.                                                                    *)
(***************************************************************************)
\* Quadrant Q lies entirely inside region R.
Inside(Q, R) ==
    /\ R.sw[1] <= Q.sw[1] /\ Q.ne[1] <= R.ne[1]
    /\ R.sw[2] <= Q.sw[2] /\ Q.ne[2] <= R.ne[2]

RECURSIVE QuadrantOfFrame(_, _, _)
\* The quadrant of the node of frame k of iterator i on tree t: the bounding
\* region for the root, and for the others the quarter of the parent's
\* quadrant that the parent frame is traversing.
QuadrantOfFrame(t, i, k) ==
    IF k = 0
    THEN HdrRegion(t)
    ELSE Quarter(QuadrantOfFrame(t, i, k - 1), FRAME(i, k - 1).quadrant)

RECURSIVE Reached(_, _)
\* The iterator as it stands on each leaf it reaches, in turn, when it is
\* moved from leaf to leaf as qt_query_ary_fast moves it.
Reached(t, i) ==
    IF i.lp = NULL
    THEN <<>>
    ELSE <<i>> \o Reached(t, _itr_next_recursive(t,
                        NextQuadrant([i EXCEPT !.so = @ - 1], i.so - 1)))

\* The items of the leaf record at leaf.
ItemsOfLeaf(t, leaf) ==
    {ItemAt(t, ItemAddr(leaf, j)) : j \in 0..(LeafN(t, leaf) - 1)}

\* Iterator i stands on a leaf of t: every frame above the root's is the
\* frame of the child its parent frame is traversing, and has within_parent
\* true iff the quadrant of its node lies entirely inside the query region;
\* if the leaf's frame has it true, every item of the leaf is inside the
\* region; if the region contains the bounding region, it is true.
FramesAreRight(t, i) ==
    /\ i.so >= 1
    /\ \A k \in 1..i.so :
           /\ FRAME(i, k).node
                  = MEM_INNERS(t) + Rd(t, FRAME(i, k - 1).node
                                    + FRAME(i, k - 1).quadrant * WordBytes)
           /\ FRAME(i, k).within_parent
                  <=> Inside(QuadrantOfFrame(t, i, k), i.region)
    /\ FRAME(i, i.so).node = i.lp
    /\ FRAME(i, i.so).within_parent =>
           \A it \in ItemsOfLeaf(t, i.lp) : InRegion(it, i.region)
    /\ Inside(HdrRegion(t), i.region) => FRAME(i, i.so).within_parent

\* C17: on every leaf a query reaches, every frame pushed for a non-root
\* node has within_parent true iff the node's quadrant (and so its own or an
\* ancestor's) is entirely inside the query region; a leaf reached with
\* within_parent true has all its items inside the region; for a region that
\* contains the bounding region every leaf is reached with it true; and the
\* array qt_query_ary_fast returns with max_n = 0, which skips the per-item
\* test on those leaves, is the sequence repeated qt_itr_next calls return.
C17_WithinParent ==
    (Finalised /\ query.state # "none") =>
        LET t == Tree(query.which)
            seq == Reached(t, qt_query_itr_op(t, query.region))
        IN  /\ \A k \in DOMAIN seq : FramesAreRight(t, seq[k])
            /\ (query.fn = "qt_query_itr" /\ query.state = "open"
                    /\ itr.lp # NULL) => FramesAreRight(t, itr)
            /\ (query.fn = "qt_query_ary_fast" /\ query.maxn = 0
                    /\ query.state = "returned") =>
                   out = Drain(t, qt_query_itr_op(t, query.region))

\* C17 witness: qt_query_ary_fast with max_n = 0 on the quadrant (8,8)-(16,16)
\* returned two items or more, having reached one leaf with within_parent
\* true and another, whose quadrant only touches the region, with
\* within_parent false.
C17_Witness ==
    /\ query.fn = "qt_query_ary_fast" /\ query.state = "returned"
    /\ query.maxn = 0
    /\ query.region = [ne |-> <<16, 16>>, sw |-> <<8, 8>>]
    /\ Len(out) >= 2
    /\ LET t == Tree(query.which)
           seq == Reached(t, qt_query_itr_op(t, query.region))
       IN  /\ \E k \in DOMAIN seq : FRAME(seq[k], seq[k].so).within_parent
           /\ \E k \in DOMAIN seq : ~FRAME(seq[k], seq[k].so).within_parent

(***************************************************************************)
(* C18.                                                                    *)
(***************************************************************************)
\* C18: once qt_finalise was given a path and has returned, the file holds
\* the whole finalised buffer, and no file descriptor that qt_finalise or
\* qt_load opened is still open after the call returned.
C18_NoDescriptorLeftOpen ==
    /\ file.exists => file.words = tree.words
    /\ openfds = {}

\* What holds of C18: the file holds the whole buffer, qt_load leaves no
\* descriptor open, and the one qt_finalise opened stays open whenever a
\* path was given.
OnlyFinaliseLeavesItsDescriptor ==
    /\ file.exists => file.words = tree.words
    /\ openfds = IF file.exists THEN {"qt_finalise"} ELSE {}

====
